---- MODULE Spec2Model ----
(***************************************************************************)
(* Okta "update user by id" action: the invoke handler of src/script.mjs  *)
(* together with the shared utilities it calls (base URL resolution and   *)
(* Authorization header selection, whose inlined text is in the bundle    *)
(* reproduced in README.md), its error and halt handlers, and, as         *)
(* functions of the same arguments, the bundled variant of invoke          *)
(* (README.md) and the dist variant (dist/index.js).                       *)
(*                                                                         *)
(* Strings are sequences of atoms.  An atom is one character (" ", "a",   *)
(* "/", ...) or one of the fixed words the code tests for as a whole      *)
(* ("Bearer ", "SSWS ", "Basic ").  The JavaScript value undefined is the *)
(* one-atom sequence Undefined, which no input string contains.           *)
(***************************************************************************)
EXTENDS Integers, Sequences, FiniteSets, TLC

(* ------------------------------ bounds --------------------------------- *)

\* longest profile field value drawn as input
MaxLen == 2

(* ------------------------------ strings -------------------------------- *)

Undefined == <<"#undefined">>

\* JavaScript truthiness of a value that is a string or undefined
Truthy(s) == s # Undefined /\ s # <<>>

\* `${v}` inside a template literal
TemplateStr(v) == IF v = Undefined THEN <<"undefined">> ELSE v

IsSpace(c) == c = " "

RECURSIVE TrimStart(_)
TrimStart(s) ==
  IF s = <<>> THEN <<>>
  ELSE IF IsSpace(Head(s)) THEN TrimStart(Tail(s)) ELSE s

RECURSIVE TrimEnd(_)
TrimEnd(s) ==
  IF s = <<>> THEN <<>>
  ELSE IF IsSpace(s[Len(s)]) THEN TrimEnd(SubSeq(s, 1, Len(s) - 1)) ELSE s

\* String.prototype.trim
Trim(s) == TrimEnd(TrimStart(s))

\* String.prototype.startsWith
StartsWith(s, p) == Len(s) >= Len(p) /\ SubSeq(s, 1, Len(p)) = p

\* String.prototype.endsWith
EndsWith(s, p) == Len(s) >= Len(p) /\ SubSeq(s, Len(s) - Len(p) + 1, Len(s)) = p

BearerPrefix == <<"Bearer ">>
SswsPrefix == <<"SSWS ">>
BasicPrefix == <<"Basic ">>

\* Buffer.from(s).toString('base64'): an injective encoding of s
Base64(s) == <<"b64[">> \o s \o <<"]">>

\* all strings over alphabet A of length at most n
RECURSIVE StringsUpTo(_, _)
StringsUpTo(A, n) ==
  IF n = 0 THEN {<<>>}
  ELSE LET shorter == StringsUpTo(A, n - 1)
       IN shorter \cup {Append(s, c) : s \in shorter, c \in A}

(* ------------------------------- JSON ---------------------------------- *)

\* JSON values that can become profile values
JStr(s) == [type |-> "string", str |-> s]
JNull == [type |-> "null", str |-> <<>>]
JNum(s) == [type |-> "number", str |-> s]

\* the empty object
EmptyObj == [k \in {} |-> JNull]

\* obj[key] = val
Put(obj, key, val) ==
  [k \in (DOMAIN obj) \cup {key} |-> IF k = key THEN val ELSE obj[k]]

\* JSON text is a sequence of lexical tokens.  A string literal token names
\* the member key it denotes (as a key) and the string it denotes (as a value).
KeyOf ==
  ("'firstName'" :> "firstName") @@ ("'lastName'" :> "lastName") @@
  ("'title'" :> "title") @@ ("'w'" :> "w") @@ ("' '" :> " ")

StrOf ==
  ("'firstName'" :> <<"f", "i", "r", "s", "t", "N", "a", "m", "e">>) @@
  ("'lastName'" :> <<"l", "a", "s", "t", "N", "a", "m", "e">>) @@
  ("'title'" :> <<"t", "i", "t", "l", "e">>) @@
  ("'w'" :> <<"w">>) @@ ("' '" :> <<" ">>)

StringLits == DOMAIN KeyOf

ScalarOf(tok) ==
  IF tok \in StringLits THEN JStr(StrOf[tok])
  ELSE IF tok = "null" THEN JNull
  ELSE JNum(<<tok>>)

IsScalarTok(tok) == tok \in StringLits \cup {"null", "1"}

ParseFail == [ok |-> FALSE, type |-> "none", str |-> <<>>, obj |-> EmptyObj, next |-> 0]
ParseOk(ty, s, o, n) == [ok |-> TRUE, type |-> ty, str |-> s, obj |-> o, next |-> n]

\* members of an object after "{"; a repeated key keeps the later value
RECURSIVE ParseMembers(_, _, _, _, _)
ParseMembers(t, i, st, key, obj) ==
  IF i > Len(t) THEN ParseFail
  ELSE IF IsSpace(t[i]) THEN ParseMembers(t, i + 1, st, key, obj)
  ELSE CASE st = "first" ->
              IF t[i] = "}" THEN ParseOk("object", <<>>, obj, i + 1)
              ELSE IF t[i] \in StringLits
                   THEN ParseMembers(t, i + 1, "colon", KeyOf[t[i]], obj)
                   ELSE ParseFail
         [] st = "key" ->
              IF t[i] \in StringLits
              THEN ParseMembers(t, i + 1, "colon", KeyOf[t[i]], obj)
              ELSE ParseFail
         [] st = "colon" ->
              IF t[i] = ":" THEN ParseMembers(t, i + 1, "value", key, obj)
              ELSE ParseFail
         [] st = "value" ->
              IF IsScalarTok(t[i])
              THEN ParseMembers(t, i + 1, "next", key, Put(obj, key, ScalarOf(t[i])))
              ELSE ParseFail
         [] OTHER ->
              IF t[i] = "," THEN ParseMembers(t, i + 1, "key", key, obj)
              ELSE IF t[i] = "}" THEN ParseOk("object", <<>>, obj, i + 1)
              ELSE ParseFail

RECURSIVE SkipSpace(_, _)
SkipSpace(t, i) ==
  IF i <= Len(t) /\ IsSpace(t[i]) THEN SkipSpace(t, i + 1) ELSE i

ParseValue(t, i) ==
  IF i > Len(t) THEN ParseFail
  ELSE IF t[i] = "{" THEN ParseMembers(t, i + 1, "first", "", EmptyObj)
  ELSE IF t[i] = "[" THEN
         LET j == SkipSpace(t, i + 1)
         IN IF j <= Len(t) /\ t[j] = "]" THEN ParseOk("array", <<>>, EmptyObj, j + 1)
            ELSE ParseFail
  ELSE IF IsScalarTok(t[i]) THEN
         LET v == ScalarOf(t[i]) IN ParseOk(v.type, v.str, EmptyObj, i + 1)
  ELSE ParseFail

\* a variant that yields null where JSON.parse throws
JSONParse_Lenient(t) ==
  LET r == ParseValue(t, SkipSpace(t, 1))
  IN IF r.ok /\ SkipSpace(t, r.next) = Len(t) + 1 THEN r
     ELSE ParseOk("null", <<>>, EmptyObj, Len(t) + 1)

\* JSON.parse(text): one value, surrounded by optional white space, and
\* nothing after it; ok = FALSE stands for the SyntaxError it throws
JSONParse(t) ==
  LET r == ParseValue(t, SkipSpace(t, 1))
  IN IF ~r.ok THEN ParseFail
     ELSE IF SkipSpace(t, r.next) = Len(t) + 1 THEN r ELSE ParseFail

(* --------------------- shared utilities (README.md) --------------------- *)

Thrown(msg, status) == [message |-> msg, statusCode |-> status]

NoUrlMessage ==
  <<"No URL specified. Provide address parameter or ADDRESS environment variable">>

\* params?.address || env.ADDRESS
AddressOf(p, ctx) ==
  IF Truthy(p.address) THEN p.address ELSE ctx.environment.ADDRESS

\* a variant that removes every trailing slash
RECURSIVE StripTrailingSlash_All(_)
StripTrailingSlash_All(a) ==
  IF EndsWith(a, <<"/">>) THEN StripTrailingSlash_All(SubSeq(a, 1, Len(a) - 1)) ELSE a

\* address.endsWith('/') ? address.slice(0, -1) : address
StripTrailingSlash(a) ==
  IF EndsWith(a, <<"/">>) THEN SubSeq(a, 1, Len(a) - 1) ELSE a

\* getBaseUrl(params, context): ok = FALSE stands for the thrown Error
getBaseUrl(p, ctx) ==
  LET address == AddressOf(p, ctx)
  IN IF ~Truthy(address)
     THEN [ok |-> FALSE, value |-> <<>>, error |-> Thrown(NoUrlMessage, Undefined)]
     ELSE [ok |-> TRUE, value |-> StripTrailingSlash(address),
           error |-> Thrown(<<>>, Undefined)]

\* token.startsWith('Bearer ') ? token : `Bearer ${token}`
AsBearer(token) ==
  IF StartsWith(token, BearerPrefix) THEN token ELSE BearerPrefix \o token

\* a variant that tries Basic before the bearer token
AuthMethod_BasicFirst(secrets) ==
  IF Truthy(secrets.BASIC_PASSWORD) /\ Truthy(secrets.BASIC_USERNAME) THEN "basic"
  ELSE IF Truthy(secrets.BEARER_AUTH_TOKEN) THEN "bearer"
  ELSE IF Truthy(secrets.OAUTH2_AUTHORIZATION_CODE_ACCESS_TOKEN) THEN "authorizationCode"
  ELSE IF Truthy(secrets.OAUTH2_CLIENT_CREDENTIALS_CLIENT_SECRET) THEN "clientCredentials"
  ELSE "none"

\* the ordered predicate chain of getAuthorizationHeader
AuthMethod(secrets) ==
  IF Truthy(secrets.BEARER_AUTH_TOKEN) THEN "bearer"
  ELSE IF Truthy(secrets.BASIC_PASSWORD) /\ Truthy(secrets.BASIC_USERNAME) THEN "basic"
  ELSE IF Truthy(secrets.OAUTH2_AUTHORIZATION_CODE_ACCESS_TOKEN) THEN "authorizationCode"
  ELSE IF Truthy(secrets.OAUTH2_CLIENT_CREDENTIALS_CLIENT_SECRET) THEN "clientCredentials"
  ELSE "none"

BasicHeader(username, password) ==
  BasicPrefix \o Base64(username \o <<":">> \o password)

NoAuthMessage ==
  <<"No authentication configured. Provide one of: ",
    "BEARER_AUTH_TOKEN, BASIC_USERNAME/BASIC_PASSWORD, ",
    "OAUTH2_AUTHORIZATION_CODE_ACCESS_TOKEN, or OAUTH2_CLIENT_CREDENTIALS_*">>

MissingTokenEnvMessage ==
  <<"OAuth2 Client Credentials flow requires TOKEN_URL and CLIENT_ID in env">>

NoAccessTokenMessage == <<"No access_token in OAuth2 response">>

TokenFailedPrefix == <<"OAuth2 token request failed: ">>

\* one name=value pair of a URLSearchParams body
FormPair(n, v) == [name |-> n, value |-> v]

JsonBody(profile) == [type |-> "json", form |-> <<>>, profile |-> profile]
FormBody(pairs) == [type |-> "form", form |-> pairs, profile |-> EmptyObj]

Request(kind, url, authorization, body) ==
  [kind |-> kind, method |-> "POST", url |-> url,
   authorization |-> authorization, body |-> body]

\* a variant that sends the credentials in the header and in the body
TokenRequest_Both(env, secrets) ==
  LET clientId == env.OAUTH2_CLIENT_CREDENTIALS_CLIENT_ID
      clientSecret == secrets.OAUTH2_CLIENT_CREDENTIALS_CLIENT_SECRET
      scope == env.OAUTH2_CLIENT_CREDENTIALS_SCOPE
      audience == env.OAUTH2_CLIENT_CREDENTIALS_AUDIENCE
      form == <<FormPair("grant_type", <<"client_credentials">>)>>
              \o (IF Truthy(scope) THEN <<FormPair("scope", scope)>> ELSE <<>>)
              \o (IF Truthy(audience) THEN <<FormPair("audience", audience)>> ELSE <<>>)
              \o <<FormPair("client_id", clientId),
                   FormPair("client_secret", clientSecret)>>
  IN Request("token", env.OAUTH2_CLIENT_CREDENTIALS_TOKEN_URL,
             BasicHeader(clientId, clientSecret), FormBody(form))

\* the request getClientCredentialsToken sends to the token endpoint
TokenRequest(env, secrets) ==
  LET clientId == env.OAUTH2_CLIENT_CREDENTIALS_CLIENT_ID
      clientSecret == secrets.OAUTH2_CLIENT_CREDENTIALS_CLIENT_SECRET
      scope == env.OAUTH2_CLIENT_CREDENTIALS_SCOPE
      audience == env.OAUTH2_CLIENT_CREDENTIALS_AUDIENCE
      inParams == env.OAUTH2_CLIENT_CREDENTIALS_AUTH_STYLE = <<"InParams">>
      form == <<FormPair("grant_type", <<"client_credentials">>)>>
              \o (IF Truthy(scope) THEN <<FormPair("scope", scope)>> ELSE <<>>)
              \o (IF Truthy(audience) THEN <<FormPair("audience", audience)>> ELSE <<>>)
              \o (IF inParams
                  THEN <<FormPair("client_id", clientId),
                         FormPair("client_secret", clientSecret)>>
                  ELSE <<>>)
  IN Request("token", env.OAUTH2_CLIENT_CREDENTIALS_TOKEN_URL,
             IF inParams THEN Undefined ELSE BasicHeader(clientId, clientSecret),
             FormBody(form))

(* ------------------------ script.mjs: updateUser ------------------------ *)

\* the fields updateUser destructures and copies, in the order it tests them
StandardFields == <<"firstName", "lastName", "email", "department", "employeeNumber">>

\* a variant that tests the field without trimming it
FieldProvided_Untrimmed(v) == Truthy(v)

\* field && field.trim()
FieldProvided(v) == Truthy(v) /\ Trim(v) # <<>>

\* a variant that stores the field as given
FieldValue_Untrimmed(v) == v

\* the value stored for a provided field: field.trim()
FieldValue(v) == Trim(v)

\* the profile after the five `if (field && field.trim())` statements
StandardProfile(p) ==
  [f \in {StandardFields[i] : i \in 1..Len(StandardFields)} \cap
         {g \in DOMAIN p : FieldProvided(p[g])}
     |-> JStr(FieldValue(p[f]))]

\* property names of the characters of a string primitive
IndexKeys == <<"0", "1", "2", "3", "4", "5", "6", "7", "8">>

\* the own enumerable properties Object.assign copies from a parsed JSON value
OwnProperties(r) ==
  IF r.type = "object" THEN r.obj
  ELSE IF r.type = "string"
       THEN [k \in {IndexKeys[i] : i \in 1..Len(r.str)} |->
               JStr(<<r.str[CHOOSE i \in 1..Len(r.str) : IndexKeys[i] = k]>>)]
       ELSE EmptyObj

\* a variant in which the target's properties win
ObjectAssign_TargetWins(target, source) ==
  [k \in (DOMAIN target) \cup (DOMAIN source) |->
     IF k \in DOMAIN target THEN target[k] ELSE source[k]]

\* Object.assign(target, source): the source's properties win
ObjectAssign(target, source) ==
  [k \in (DOMAIN target) \cup (DOMAIN source) |->
     IF k \in DOMAIN source THEN source[k] ELSE target[k]]

\* additionalProfileAttributes && additionalProfileAttributes.trim()
AdditionalProvided(p) ==
  Truthy(p.additionalProfileAttributes) /\ Trim(p.additionalProfileAttributes) # <<>>

InvalidJsonPrefix == <<"Invalid additionalProfileAttributes JSON: ">>

\* error.message of the SyntaxError JSON.parse throws
SyntaxErrorMessage == <<"Unexpected token">>

NoProfileMessage == <<"At least one profile field must be provided to update">>

\* a variant without the check
ProfileIsEmpty_Never(profile) == FALSE

\* Object.keys(profile).length === 0
ProfileIsEmpty(profile) == DOMAIN profile = {}

\* encodeURIComponent on the characters the inputs use
PercentEncode(s) ==
  [i \in 1..Len(s) |->
     IF s[i] = "@" THEN "%40" ELSE IF s[i] = "/" THEN "%2F"
     ELSE IF s[i] = " " THEN "%20" ELSE s[i]]

\* a variant that percent-encodes the userId
UpdateUrl_Encoded(base, userId) ==
  base \o <<"/api/v1/users/">> \o PercentEncode(TemplateStr(userId))

\* `${baseUrl}/api/v1/users/${userId}`
UpdateUrl(base, userId) == base \o <<"/api/v1/users/">> \o TemplateStr(userId)

\* updateUser up to its fetch: the request it sends, or the Error it throws
updateUser(p, base, hdrs) ==
  LET std == StandardProfile(p)
      parsed == JSONParse(p.additionalProfileAttributes)
      profile == IF AdditionalProvided(p) /\ parsed.ok
                 THEN ObjectAssign(std, OwnProperties(parsed))
                 ELSE std
      none == Request("none", <<>>, Undefined, JsonBody(EmptyObj))
  IN IF AdditionalProvided(p) /\ ~parsed.ok
     THEN [ok |-> FALSE, request |-> none,
           error |-> Thrown(InvalidJsonPrefix \o SyntaxErrorMessage, Undefined)]
     ELSE IF ProfileIsEmpty(profile)
     THEN [ok |-> FALSE, request |-> none, error |-> Thrown(NoProfileMessage, Undefined)]
     ELSE [ok |-> TRUE,
           request |-> Request("update", UpdateUrl(base, p.userId),
                               hdrs.Authorization, JsonBody(profile)),
           error |-> Thrown(<<>>, Undefined)]

(* ------------------------- script.mjs: invoke --------------------------- *)

\* headers returned by createAuthHeaders for an Authorization value
AuthHeaders(authorization) ==
  [Authorization |-> authorization, Accept |-> "application/json",
   ContentType |-> "application/json"]

\* a variant that sends the header as resolved
OktaHeaders_NoRewrite(ctx, hdrs) == hdrs

\* lines 116-119: the SSWS rewrite of the Authorization header
OktaHeaders(ctx, hdrs) ==
  IF Truthy(ctx.secrets.BEARER_AUTH_TOKEN) /\ StartsWith(hdrs.Authorization, BearerPrefix)
  THEN LET token == SubSeq(hdrs.Authorization, Len(BearerPrefix) + 1,
                           Len(hdrs.Authorization))
       IN [hdrs EXCEPT !.Authorization =
             IF StartsWith(token, SswsPrefix) THEN token ELSE SswsPrefix \o token]
  ELSE hdrs

UpdateFailedPrefix == <<"Failed to update user: ">>

ResultKeys ==
  {"id", "status", "created", "activated", "statusChanged", "lastLogin",
   "lastUpdated", "profile"}

\* a variant that passes the whole body on and fills in what is missing
ResultOf_Defaulted(userData) ==
  [k \in DOMAIN userData |-> IF userData[k] = Undefined THEN <<>> ELSE userData[k]]

\* the object invoke returns for the parsed body of a 2xx response
ResultOf(userData) == [k \in ResultKeys |-> userData[k]]

\* a variant that never reads the body
ErrorOf_HttpOnly(resp) ==
  Thrown(UpdateFailedPrefix \o <<"HTTP ">> \o resp.status, resp.status)

\* a variant that uses errorSummary whenever the body has one, empty or not,
\* and lets the failure to parse the body escape
ErrorOf_AnySummary(resp) ==
  IF ~resp.json THEN Thrown(<<"Unexpected end of JSON input">>, Undefined)
  ELSE Thrown(IF resp.body.errorSummary # Undefined
              THEN UpdateFailedPrefix \o resp.body.errorSummary
              ELSE UpdateFailedPrefix \o <<"HTTP ">> \o resp.status,
              resp.status)

\* the Error invoke throws for a response that is not ok
ErrorOf(resp) ==
  Thrown(IF resp.json /\ Truthy(resp.body.errorSummary)
         THEN UpdateFailedPrefix \o resp.body.errorSummary
         ELSE UpdateFailedPrefix \o <<"HTTP ">> \o resp.status,
         resp.status)

(* ------------------------------- inputs --------------------------------- *)

FieldNames ==
  {"firstName", "lastName", "email", "department", "employeeNumber", "login"}

FieldStrings == StringsUpTo({" ", "a"}, MaxLen)

MkParams(userId, address, additional, given) ==
  LET F(f) == IF f \in DOMAIN given THEN given[f] ELSE Undefined
  IN [userId |-> userId, address |-> address,
      additionalProfileAttributes |-> additional,
      firstName |-> F("firstName"), lastName |-> F("lastName"),
      email |-> F("email"), login |-> F("login"),
      department |-> F("department"), employeeNumber |-> F("employeeNumber")]

MkEnvironment(address, tokenUrl, clientId, scope, audience, authStyle) ==
  [ADDRESS |-> address,
   OAUTH2_CLIENT_CREDENTIALS_TOKEN_URL |-> tokenUrl,
   OAUTH2_CLIENT_CREDENTIALS_CLIENT_ID |-> clientId,
   OAUTH2_CLIENT_CREDENTIALS_SCOPE |-> scope,
   OAUTH2_CLIENT_CREDENTIALS_AUDIENCE |-> audience,
   OAUTH2_CLIENT_CREDENTIALS_AUTH_STYLE |-> authStyle]

MkSecrets(bearer, username, password, accessToken, clientSecret) ==
  [BEARER_AUTH_TOKEN |-> bearer,
   BASIC_USERNAME |-> username,
   BASIC_PASSWORD |-> password,
   OAUTH2_AUTHORIZATION_CODE_ACCESS_TOKEN |-> accessToken,
   OAUTH2_CLIENT_CREDENTIALS_CLIENT_SECRET |-> clientSecret]

MkContext(env, secrets) == [environment |-> env, secrets |-> secrets]

AdditionalInputs ==
  { Undefined, <<>>, <<" ">>,
    <<"{", "}">>, <<" ", "{", " ", "}", " ">>, <<"null">>, <<"1">>, <<"[", "]">>,
    <<"'w'">>,
    <<"{", "'title'", ":", "'w'", "}">>,
    <<"{", "'firstName'", ":", "'w'", "}">>,
    <<"{", "'firstName'", ":", "'w'", ",", "'title'", ":", "1", "}">>,
    <<"{", "'lastName'", ":", "' '", "}">>,
    <<"{", "'title'", ":", "'w'", ",", "'title'", ":", "null", "}">>,
    <<"{", "'title'", ":", "'w'", ",", "}">>,
    <<"{", "'title'", ":", "'w'">>,
    <<"invalid-json">> }

UserIds == { Undefined, <<>>, <<" ">>, <<"u">>, <<"u", "@", "/">> }

Addresses == { Undefined, <<>>, <<"h">>, <<"h", "/">>, <<"h", "/", "/">> }

EnvAddresses == { Undefined, <<"e">>, <<"e", "/">> }

BearerTokens ==
  { Undefined, <<"t">>, BearerPrefix \o <<"t">>, SswsPrefix \o <<"t">>,
    BearerPrefix \o SswsPrefix \o <<"t">> }

AccessTokens == { Undefined, <<"c">>, BearerPrefix \o <<"c">> }

Optional(v) == { Undefined, v }

BearerSecrets == MkSecrets(<<"t">>, Undefined, Undefined, Undefined, Undefined)
NoSecrets == MkSecrets(Undefined, Undefined, Undefined, Undefined, Undefined)

PlainEnvironment(address) ==
  MkEnvironment(address, Undefined, Undefined, Undefined, Undefined, Undefined)

WorkingContext == MkContext(PlainEnvironment(<<"e">>), BearerSecrets)

\* at most one profile parameter is present, with every value and every
\* additionalProfileAttributes
OneFieldInputs ==
  { [params |-> MkParams(<<"u">>, Undefined, additional, given),
     context |-> WorkingContext]
    : given \in {<<>>} \cup UNION { [{f} -> FieldStrings] : f \in FieldNames },
      additional \in AdditionalInputs }

\* any set of profile parameters is present (the others absent or blank),
\* with and without additional attributes that name standard fields
ManyFieldsInputs ==
  { [params |-> MkParams(<<"u">>, Undefined, additional,
                         [f \in FieldNames |-> IF f \in S THEN v ELSE w]),
     context |-> WorkingContext]
    : S \in SUBSET FieldNames, v \in FieldStrings, w \in {Undefined, <<" ">>},
      additional \in { Undefined,
                       <<"{", "'firstName'", ":", "'w'", ",", "'title'", ":", "1", "}">> } }

ProfileInputs == OneFieldInputs \cup ManyFieldsInputs

\* userId and the two places of the base URL vary
RoutingInputs ==
  { [params |-> MkParams(userId, address, Undefined, given),
     context |-> MkContext(PlainEnvironment(envAddress), secrets)]
    : userId \in UserIds, address \in Addresses, envAddress \in EnvAddresses,
      given \in { <<>>, [f \in {"firstName"} |-> <<"a">>] },
      secrets \in { BearerSecrets, NoSecrets } }

SomeParams ==
  { MkParams(<<"u">>, Undefined, Undefined, [f \in {"firstName"} |-> <<"a">>]),
    MkParams(Undefined, Undefined, Undefined, [f \in {"firstName"} |-> <<"a">>]),
    MkParams(<<"u">>, Undefined, Undefined, <<>>),
    MkParams(<<"u">>, Undefined, Undefined, [f \in {"login"} |-> <<"a">>]),
    MkParams(<<"u">>, Undefined, <<"invalid-json">>, [f \in {"firstName"} |-> <<"a">>]),
    MkParams(<<"u">>, Undefined, <<"{", "'title'", ":", "'w'", "}">>, <<>>) }

\* the secrets vary
AuthInputs ==
  { [params |-> p,
     context |-> MkContext(
        MkEnvironment(<<"e">>, tokenUrl, clientId, Undefined, Undefined, Undefined),
        MkSecrets(bearer, username, password, accessToken, clientSecret))]
    : p \in SomeParams, bearer \in BearerTokens,
      username \in Optional(<<"n">>), password \in Optional(<<"p">>),
      accessToken \in AccessTokens, clientSecret \in Optional(<<"s">>),
      tokenUrl \in Optional(<<"k">>), clientId \in Optional(<<"i">>) }

\* the options of the client-credentials token exchange vary
TokenInputs ==
  { [params |-> p,
     context |-> MkContext(
        MkEnvironment(<<"e">>, <<"k">>, <<"i">>, scope, audience, authStyle),
        MkSecrets(Undefined, Undefined, Undefined, Undefined, <<"s">>))]
    : p \in SomeParams, scope \in Optional(<<"o">>), audience \in Optional(<<"d">>),
      authStyle \in { Undefined, <<"InParams">>, <<"InHeader">> } }

\* params carries the oktaDomain the dist variant reads, next to an address
\* that names the same server or none
DomainInputs ==
  { [params |-> MkParams(userId, address, Undefined, [f \in {"firstName"} |-> <<"a">>])
                  @@ [oktaDomain |-> oktaDomain],
     context |-> MkContext(PlainEnvironment(Undefined),
                           MkSecrets(bearer, Undefined, Undefined, Undefined, Undefined))]
    : userId \in { Undefined, <<"u">>, <<"u", " ">> },
      address \in { Undefined, <<"https://", "d">> },
      oktaDomain \in { Undefined, <<"d">>, <<"d", "/">>, <<" ">> },
      bearer \in BearerTokens }

Inputs ==
  ProfileInputs \cup RoutingInputs \cup AuthInputs \cup TokenInputs \cup DomainInputs

\* what the token endpoint may answer
TokenResponses ==
  { [ok |-> TRUE, status |-> <<"200">>, json |-> TRUE, access_token |-> <<"x">>],
    [ok |-> TRUE, status |-> <<"200">>, json |-> TRUE, access_token |-> Undefined],
    [ok |-> TRUE, status |-> <<"200">>, json |-> FALSE, access_token |-> Undefined],
    [ok |-> FALSE, status |-> <<"401">>, json |-> TRUE, access_token |-> Undefined],
    [ok |-> FALSE, status |-> <<"500">>, json |-> FALSE, access_token |-> Undefined] }

ResponseKeys == ResultKeys \cup {"errorSummary", "_links"}

MkBody(given) == [k \in ResponseKeys |-> IF k \in DOMAIN given THEN given[k] ELSE Undefined]

UserRecord == [k \in ResultKeys \cup {"_links"} |-> <<k>>]

\* what the users endpoint may answer
UpdateResponses ==
  { [ok |-> TRUE, status |-> <<"200">>, json |-> TRUE, body |-> MkBody(UserRecord)],
    [ok |-> TRUE, status |-> <<"200">>, json |-> TRUE,
     body |-> MkBody([k \in {"id", "status", "profile"} |-> <<k>>])],
    [ok |-> TRUE, status |-> <<"204">>, json |-> FALSE, body |-> MkBody(<<>>)],
    [ok |-> FALSE, status |-> <<"404">>, json |-> TRUE,
     body |-> MkBody([k \in {"errorSummary"} |-> <<"Not found">>])],
    [ok |-> FALSE, status |-> <<"400">>, json |-> TRUE, body |-> MkBody(<<>>)],
    [ok |-> FALSE, status |-> <<"429">>, json |-> TRUE,
     body |-> MkBody([k \in {"errorSummary"} |-> <<>>])],
    [ok |-> FALSE, status |-> <<"500">>, json |-> FALSE, body |-> MkBody(<<>>)] }

NoResponse == [ok |-> FALSE, status |-> <<>>, json |-> FALSE, body |-> MkBody(<<>>)]

\* the error fetch rejects with when the transport fails
NetworkError == Thrown(<<"fetch failed">>, Undefined)

\* the errors the HTTP layer may reject a fetch with
TransportErrors == { NetworkError, Thrown(<<"socket hang up">>, <<"ECONNRESET">>) }

NoError == Thrown(<<>>, Undefined)

NoTokenResponse ==
  [ok |-> FALSE, status |-> <<>>, json |-> FALSE, access_token |-> Undefined]

\* the error response.json() rejects with when the body is not JSON
BodySyntaxError == Thrown(<<"Unexpected end of JSON input">>, Undefined)

\* a variant that propagates whatever the token response holds
getClientCredentialsToken_Unchecked(r) ==
  [ok |-> TRUE, token |-> TemplateStr(r.access_token), error |-> NoError]

\* getClientCredentialsToken after its fetch: the access token it returns for
\* the response r, or the Error it throws
getClientCredentialsToken(r) ==
  IF ~r.ok
  THEN [ok |-> FALSE, token |-> <<>>,
        error |-> Thrown(TokenFailedPrefix \o r.status, Undefined)]
  ELSE IF ~r.json
  THEN [ok |-> FALSE, token |-> <<>>, error |-> BodySyntaxError]
  ELSE IF ~Truthy(r.access_token)
  THEN [ok |-> FALSE, token |-> <<>>, error |-> Thrown(NoAccessTokenMessage, Undefined)]
  ELSE [ok |-> TRUE, token |-> r.access_token, error |-> NoError]

\* a variant that wraps the rejection of fetch in an error of its own
FetchRejection_Wrapped(err) == Thrown(UpdateFailedPrefix \o err.message, Undefined)

\* what invoke rejects with when an awaited fetch rejects with err: neither
\* updateUser nor invoke catches it
FetchRejection(err) == err

(* ---------------------- script.mjs: error and halt ---------------------- *)

\* a variant that throws a new Error with the same message
errorHandler_Rewrapped(err) == Thrown(err.message, Undefined)

\* lines 172-179: what the error handler throws for params.error
errorHandler(err) == err

\* the readings of the clock new Date() may take
Clock == { <<"t1">>, <<"t2">> }

\* Date.prototype.toISOString
ToISOString(t) == <<"iso[">> \o t \o <<"]">>

\* the reasons the job runner may give; it may give none
HaltReasons == { Undefined, <<"timeout">> }

\* a variant without the default of userId
halt_NoDefault(hp, now) ==
  [userId |-> hp.userId, reason |-> hp.reason,
   haltedAt |-> ToISOString(now), cleanupCompleted |-> TRUE]

\* lines 187-200: what the halt handler returns
halt(hp, now) ==
  [userId |-> IF Truthy(hp.userId) THEN hp.userId ELSE <<"unknown">>,
   reason |-> hp.reason,
   haltedAt |-> ToISOString(now),
   cleanupCompleted |-> TRUE]

HaltParams(reason, userId) == [reason |-> reason, userId |-> userId]

NotHalted ==
  [kind |-> "pending", params |-> HaltParams(Undefined, Undefined),
   value |-> [userId |-> Undefined, reason |-> Undefined, haltedAt |-> Undefined,
              cleanupCompleted |-> FALSE]]

Halted(hp, val) == [kind |-> "resolved", params |-> hp, value |-> val]

(* ------------------------------- state ---------------------------------- *)

VARIABLES
  params,    \* the job parameters of the invocation
  context,   \* its execution context: environment and secrets
  pc,        \* the statement of invoke that runs next
  baseUrl,   \* const baseUrl
  headers,   \* let headers
  net,       \* the requests handed to fetch so far, in order
  response,  \* const response
  outcome,   \* how the promise returned by invoke settled
  log,       \* the lines written to the console so far
  tokenResponse,  \* const response of getClientCredentialsToken
  transportError, \* the error a fetch promise rejected with, if one did
  errorResult,    \* how the promise returned by the error handler settled
  haltResult      \* how the promise returned by the halt handler settled

vars == <<params, context, pc, baseUrl, headers, net, response, outcome, log,
          tokenResponse, transportError, errorResult, haltResult>>

\* what the handlers error and halt leave alone or set
handlerVars == <<errorResult, haltResult>>

Pending == [kind |-> "pending", error |-> Thrown(<<>>, Undefined),
            value |-> [k \in ResultKeys |-> Undefined]]

Rejected(err) == [kind |-> "rejected", error |-> err,
                  value |-> [k \in ResultKeys |-> Undefined]]

Resolved(val) == [kind |-> "resolved", error |-> Thrown(<<>>, Undefined), value |-> val]

LogLine(level, text) == [level |-> level, text |-> text]

\* a variant that also prints the bearer token
StartLine_WithToken(p, ctx) ==
  LogLine("log", <<"Starting Okta user update for userId: ">> \o TemplateStr(p.userId)
                 \o <<" ">> \o TemplateStr(ctx.secrets.BEARER_AUTH_TOKEN))

\* line 107: what invoke(params, context) prints first
StartLine(p, ctx) ==
  LogLine("log", <<"Starting Okta user update for userId: ">> \o TemplateStr(p.userId))

\* line 131
SuccessLine(p, ctx, resp) ==
  LogLine("log", <<"Successfully updated user ">> \o TemplateStr(resp.body["id"])
                 \o <<" (userId: ">> \o TemplateStr(p.userId) \o <<")">>)

\* lines 154 and 157: the error body as parsed, or the notice that it did not
\* parse
ErrorResponseLine(p, ctx, resp) ==
  IF resp.json
  THEN LogLine("error", <<"Okta API error response:">>
                        \o TemplateStr(resp.body["errorSummary"]))
  ELSE LogLine("error", <<"Failed to parse error response">>)

\* line 174: what error(params, _context) prints
ErrorLine(userId, err) ==
  LogLine("error", <<"User update failed for userId ">> \o TemplateStr(userId)
                   \o <<": ">> \o err.message)

\* line 189: what halt(params, _context) prints
HaltLine(hp) ==
  LogLine("log", <<"User update job is being halted (">> \o TemplateStr(hp.reason)
                 \o <<") for userId: ">> \o TemplateStr(hp.userId))

Init ==
  /\ \E in \in Inputs : params = in.params /\ context = in.context
  /\ pc = "invoke"
  /\ baseUrl = Undefined
  /\ headers = AuthHeaders(Undefined)
  /\ net = <<>>
  /\ response = NoResponse
  /\ outcome = Pending
  /\ log = <<>>
  /\ tokenResponse = NoTokenResponse
  /\ transportError = NoError
  /\ errorResult = Pending
  /\ haltResult = NotHalted

\* an exception leaves invoke: the promise rejects
Throw(err) ==
  /\ outcome' = Rejected(err)
  /\ pc' = "done"

\* lines 105-107
InvokeStart ==
  /\ pc = "invoke"
  /\ log' = Append(log, StartLine(params, context))
  /\ pc' = "getBaseURL"
  /\ UNCHANGED <<params, context, baseUrl, headers, net, response, outcome>>
  /\ UNCHANGED <<tokenResponse, transportError>>
  /\ UNCHANGED handlerVars

\* line 110
GetBaseURL ==
  /\ pc = "getBaseURL"
  /\ LET r == getBaseUrl(params, context)
     IN IF r.ok
        THEN /\ baseUrl' = r.value
             /\ pc' = "createAuthHeaders"
             /\ UNCHANGED outcome
        ELSE /\ Throw(r.error)
             /\ UNCHANGED baseUrl
  /\ UNCHANGED <<params, context, headers, net, response, log>>
  /\ UNCHANGED <<tokenResponse, transportError>>
  /\ UNCHANGED handlerVars

\* line 113, up to the point where getAuthorizationHeader returns or awaits
CreateAuthHeaders ==
  /\ pc = "createAuthHeaders"
  /\ LET env == context.environment
         secrets == context.secrets
         method == AuthMethod(secrets)
     IN CASE method = "bearer" ->
               /\ headers' = AuthHeaders(AsBearer(secrets.BEARER_AUTH_TOKEN))
               /\ pc' = "ssws"
               /\ UNCHANGED <<net, outcome>>
          [] method = "basic" ->
               /\ headers' = AuthHeaders(BasicHeader(secrets.BASIC_USERNAME,
                                                     secrets.BASIC_PASSWORD))
               /\ pc' = "ssws"
               /\ UNCHANGED <<net, outcome>>
          [] method = "authorizationCode" ->
               /\ headers' =
                    AuthHeaders(AsBearer(secrets.OAUTH2_AUTHORIZATION_CODE_ACCESS_TOKEN))
               /\ pc' = "ssws"
               /\ UNCHANGED <<net, outcome>>
          [] method = "clientCredentials" ->
               IF ~Truthy(env.OAUTH2_CLIENT_CREDENTIALS_TOKEN_URL)
                  \/ ~Truthy(env.OAUTH2_CLIENT_CREDENTIALS_CLIENT_ID)
               THEN /\ Throw(Thrown(MissingTokenEnvMessage, Undefined))
                    /\ UNCHANGED <<headers, net>>
               ELSE /\ net' = Append(net, TokenRequest(env, secrets))
                    /\ pc' = "awaitToken"
                    /\ UNCHANGED <<headers, outcome>>
          [] OTHER ->
               /\ Throw(Thrown(NoAuthMessage, Undefined))
               /\ UNCHANGED <<headers, net>>
  /\ UNCHANGED <<params, context, baseUrl, response, log>>
  /\ UNCHANGED <<tokenResponse, transportError>>
  /\ UNCHANGED handlerVars

\* the token request fails in transport: the rejection of fetch leaves invoke
TokenTransportError ==
  /\ pc = "awaitToken"
  /\ \E err \in TransportErrors :
       /\ transportError' = err
       /\ Throw(FetchRejection(err))
  /\ UNCHANGED <<params, context, baseUrl, headers, net, response, log, tokenResponse>>
  /\ UNCHANGED handlerVars

\* the token endpoint answers: the rest of getClientCredentialsToken
TokenResponse ==
  /\ pc = "awaitToken"
  /\ \E r \in TokenResponses :
       /\ tokenResponse' = r
       /\ LET t == getClientCredentialsToken(r)
          IN IF t.ok
             THEN /\ headers' = AuthHeaders(BearerPrefix \o t.token)
                  /\ pc' = "ssws"
                  /\ UNCHANGED outcome
             ELSE /\ Throw(t.error)
                  /\ UNCHANGED headers
  /\ UNCHANGED <<params, context, baseUrl, net, response, log, transportError>>
  /\ UNCHANGED handlerVars

\* lines 116-119
Ssws ==
  /\ pc = "ssws"
  /\ headers' = OktaHeaders(context, headers)
  /\ pc' = "updateUser"
  /\ UNCHANGED <<params, context, baseUrl, net, response, outcome, log>>
  /\ UNCHANGED <<tokenResponse, transportError>>
  /\ UNCHANGED handlerVars

\* lines 122-126 with updateUser, lines 14-64, up to the await of fetch
UpdateUser ==
  /\ pc = "updateUser"
  /\ LET r == updateUser(params, baseUrl, headers)
     IN IF r.ok
        THEN /\ net' = Append(net, r.request)
             /\ pc' = "awaitFetch"
             /\ UNCHANGED outcome
        ELSE /\ Throw(r.error)
             /\ UNCHANGED net
  /\ UNCHANGED <<params, context, baseUrl, headers, response, log>>
  /\ UNCHANGED <<tokenResponse, transportError>>
  /\ UNCHANGED handlerVars

\* the update request fails in transport: the rejection of fetch leaves invoke
FetchTransportError ==
  /\ pc = "awaitFetch"
  /\ \E err \in TransportErrors :
       /\ transportError' = err
       /\ Throw(FetchRejection(err))
  /\ UNCHANGED <<params, context, baseUrl, headers, net, response, log, tokenResponse>>
  /\ UNCHANGED handlerVars

\* the users endpoint answers: updateUser returns the response (line 66)
FetchResponse ==
  /\ pc = "awaitFetch"
  /\ \E r \in UpdateResponses : response' = r
  /\ pc' = "handleResponse"
  /\ UNCHANGED <<params, context, baseUrl, headers, net, outcome, log>>
  /\ UNCHANGED <<tokenResponse, transportError>>
  /\ UNCHANGED handlerVars

\* lines 129-163
HandleResponse ==
  /\ pc = "handleResponse"
  /\ IF response.ok
     THEN IF response.json
          THEN /\ log' = Append(log, SuccessLine(params, context, response))
               /\ outcome' = Resolved(ResultOf(response.body))
          ELSE /\ outcome' = Rejected(BodySyntaxError)
               /\ UNCHANGED log
     ELSE /\ log' = Append(log, ErrorResponseLine(params, context, response))
          /\ outcome' = Rejected(ErrorOf(response))
  /\ pc' = "done"
  /\ UNCHANGED <<params, context, baseUrl, headers, net, response>>
  /\ UNCHANGED <<tokenResponse, transportError>>
  /\ UNCHANGED handlerVars

\* the job runner hands the error invoke rejected with to the error handler
\* (lines 172-179)
ErrorHandler ==
  /\ pc = "done"
  /\ outcome.kind = "rejected"
  /\ errorResult = Pending
  /\ log' = Append(log, ErrorLine(params.userId, outcome.error))
  /\ errorResult' = Rejected(errorHandler(outcome.error))
  /\ UNCHANGED <<params, context, pc, baseUrl, headers, net, response, outcome,
                 tokenResponse, transportError, haltResult>>

\* the job runner halts the job while invoke is suspended or has not run
\* (lines 187-200)
Halt ==
  /\ pc \in {"invoke", "awaitToken", "awaitFetch"}
  /\ haltResult = NotHalted
  /\ \E reason \in HaltReasons, now \in Clock :
       LET hp == HaltParams(reason, params.userId)
       IN /\ log' = Append(log, HaltLine(hp))
          /\ haltResult' = Halted(hp, halt(hp, now))
  /\ UNCHANGED <<params, context, pc, baseUrl, headers, net, response, outcome,
                 tokenResponse, transportError, errorResult>>

Next ==
  \/ InvokeStart
  \/ GetBaseURL
  \/ CreateAuthHeaders
  \/ TokenTransportError
  \/ TokenResponse
  \/ Ssws
  \/ UpdateUser
  \/ FetchTransportError
  \/ FetchResponse
  \/ HandleResponse
  \/ ErrorHandler

Spec == Init /\ [][Next]_vars

\* the job together with a job runner that may halt it
NextOrHalt ==
  \/ Next
  \/ Halt

HaltSpec == Init /\ [][NextOrHalt]_vars

(* ------------------------------ properties ------------------------------ *)

(* ------------------- the other variants of invoke ----------------------- *)

\* what the HTTP layer did in an invocation: for each of the two fetches the
\* error it rejected with, or the response it resolved with
Answers(tokenError, tokenAnswer, fetchError, answer) ==
  [tokenError |-> tokenError, tokenResponse |-> tokenAnswer,
   fetchError |-> fetchError, response |-> answer]

\* where a variant of invoke is when the HTTP layer has done `ans`: the
\* requests it handed to fetch and how its promise settled
Run(requests, settled) == [net |-> requests, outcome |-> settled]

\* the part all variants share: what invoke does once the fetch of the update
\* request has settled (script.mjs lines 128-163)
AfterFetch(requests, ans) ==
  IF ans.fetchError # NoError THEN Run(requests, Rejected(FetchRejection(ans.fetchError)))
  ELSE IF ans.response = NoResponse THEN Run(requests, Pending)
  ELSE IF ans.response.ok
  THEN IF ans.response.json
       THEN Run(requests, Resolved(ResultOf(ans.response.body)))
       ELSE Run(requests, Rejected(BodySyntaxError))
  ELSE Run(requests, Rejected(ErrorOf(ans.response)))

\* getAuthorizationHeader(context) of the bundle: the header it returns, or
\* the Error it throws, with the requests it sent
getAuthorizationHeader(ctx, ans) ==
  LET env == ctx.environment
      secrets == ctx.secrets
      method == AuthMethod(secrets)
      failed(err, sent) == [ok |-> FALSE, pending |-> FALSE, value |-> <<>>,
                            error |-> err, net |-> sent]
      header(h, sent) == [ok |-> TRUE, pending |-> FALSE, value |-> h,
                          error |-> NoError, net |-> sent]
  IN CASE method = "bearer" -> header(AsBearer(secrets.BEARER_AUTH_TOKEN), <<>>)
       [] method = "basic" ->
            header(BasicHeader(secrets.BASIC_USERNAME, secrets.BASIC_PASSWORD), <<>>)
       [] method = "authorizationCode" ->
            header(AsBearer(secrets.OAUTH2_AUTHORIZATION_CODE_ACCESS_TOKEN), <<>>)
       [] method = "clientCredentials" ->
            IF ~Truthy(env.OAUTH2_CLIENT_CREDENTIALS_TOKEN_URL)
               \/ ~Truthy(env.OAUTH2_CLIENT_CREDENTIALS_CLIENT_ID)
            THEN failed(Thrown(MissingTokenEnvMessage, Undefined), <<>>)
            ELSE LET sent == <<TokenRequest(env, secrets)>>
                     t == getClientCredentialsToken(ans.tokenResponse)
                 IN IF ans.tokenError # NoError
                    THEN failed(FetchRejection(ans.tokenError), sent)
                    ELSE IF ans.tokenResponse = NoTokenResponse
                    THEN [ok |-> FALSE, pending |-> TRUE, value |-> <<>>,
                          error |-> NoError, net |-> sent]
                    ELSE IF t.ok THEN header(BearerPrefix \o t.token, sent)
                    ELSE failed(t.error, sent)
       [] OTHER -> failed(Thrown(NoAuthMessage, Undefined), <<>>)

\* script.mjs lines 103-164 read as one function of invoke's arguments and of
\* what the HTTP layer did: createAuthHeaders is getAuthorizationHeader
\* wrapped into the header object
scriptInvoke(p, ctx, ans) ==
  LET b == getBaseUrl(p, ctx)
      a == getAuthorizationHeader(ctx, ans)
      r == updateUser(p, b.value, OktaHeaders(ctx, AuthHeaders(a.value)))
  IN IF ~b.ok THEN Run(<<>>, Rejected(b.error))
     ELSE IF a.pending THEN Run(a.net, Pending)
     ELSE IF ~a.ok THEN Run(a.net, Rejected(a.error))
     ELSE IF ~r.ok THEN Run(a.net, Rejected(r.error))
     ELSE AfterFetch(Append(a.net, r.request), ans)

\* what invoke and, after a rejection, the error handler print in such a run
scriptLog(p, ctx, ans) ==
  LET run == scriptInvoke(p, ctx, ans)
      answered == /\ \E i \in 1..Len(run.net) : run.net[i].kind = "update"
                  /\ ans.fetchError = NoError
                  /\ ans.response # NoResponse
  IN <<StartLine(p, ctx)>>
     \o (IF answered /\ ans.response.ok /\ ans.response.json
         THEN <<SuccessLine(p, ctx, ans.response)>>
         ELSE IF answered /\ ~ans.response.ok
         THEN <<ErrorResponseLine(p, ctx, ans.response)>>
         ELSE <<>>)
     \o (IF run.outcome.kind = "rejected"
         THEN <<ErrorLine(p.userId, run.outcome.error)>>
         ELSE <<>>)

\* README.md lines 527-530: the SSWS rewrite of the bundled variant
BundledSsws(authHeader) ==
  IF StartsWith(authHeader, BearerPrefix)
  THEN LET token == SubSeq(authHeader, Len(BearerPrefix) + 1, Len(authHeader))
       IN IF StartsWith(token, SswsPrefix) THEN token ELSE SswsPrefix \o token
  ELSE authHeader

\* README.md lines 510-575: invoke of the bundled variant, with README.md
\* lines 416-473 for its updateUser
bundledInvoke(p, ctx, ans) ==
  IF ~Truthy(p.userId)
  THEN Run(<<>>, Rejected(Thrown(<<"Invalid or missing userId parameter">>, Undefined)))
  ELSE LET b == getBaseUrl(p, ctx)
           a == getAuthorizationHeader(ctx, ans)
           r == updateUser(p, b.value, AuthHeaders(BundledSsws(a.value)))
       IN IF ~b.ok THEN Run(<<>>, Rejected(b.error))
          ELSE IF a.pending THEN Run(a.net, Pending)
          ELSE IF ~a.ok THEN Run(a.net, Rejected(a.error))
          ELSE IF ~r.ok THEN Run(a.net, Rejected(r.error))
          ELSE AfterFetch(Append(a.net, r.request), ans)

\* params.oktaDomain, which only the dist variant reads
OktaDomainOf(p) == IF "oktaDomain" \in DOMAIN p THEN p.oktaDomain ELSE Undefined

\* the host of `https://${oktaDomain}`: what stands before the first "/"
RECURSIVE UrlHost(_)
UrlHost(d) ==
  IF d = <<>> \/ Head(d) = "/" THEN <<>> ELSE <<Head(d)>> \o UrlHost(Tail(d))

\* the URL parser percent-encodes a space inside a path
EncodeSpaces(s) == [i \in 1..Len(s) |-> IF s[i] = " " THEN "%20" ELSE s[i]]

\* new URL(`/api/v1/users/${userId}`, `https://${oktaDomain}`).toString() on
\* the characters the inputs use: the parser drops trailing spaces of both
\* arguments, needs a host without spaces, and replaces the path of the base;
\* ok = FALSE stands for the TypeError it throws
DistUrl(userId, oktaDomain) ==
  LET host == UrlHost(TrimEnd(oktaDomain))
  IN IF host = <<>> \/ \E i \in 1..Len(host) : host[i] = " "
     THEN [ok |-> FALSE, value |-> <<>>]
     ELSE [ok |-> TRUE,
           value |-> <<"https://">> \o host \o <<"/api/v1/users/">>
                     \o EncodeSpaces(TrimEnd(userId))]

\* dist/index.js line 60
DistAuthHeader(authToken) ==
  IF StartsWith(authToken, SswsPrefix) THEN authToken ELSE SswsPrefix \o authToken

\* dist/index.js lines 15-70: updateUser of the dist variant up to its fetch;
\* lines 16-56 are those of script.mjs
distUpdateUser(p, oktaDomain, authToken) ==
  LET r == updateUser(p, <<>>, AuthHeaders(DistAuthHeader(authToken)))
      u == DistUrl(p.userId, oktaDomain)
  IN IF ~r.ok THEN r
     ELSE IF ~u.ok
     THEN [r EXCEPT !.ok = FALSE, !.error = Thrown(<<"Invalid URL">>, <<"ERR_INVALID_URL">>)]
     ELSE [r EXCEPT !.request.url = u.value]

\* dist/index.js lines 92-153: invoke of the dist variant
distInvoke(p, ctx, ans) ==
  LET oktaDomain == OktaDomainOf(p)
      r == distUpdateUser(p, oktaDomain, ctx.secrets.BEARER_AUTH_TOKEN)
      reject(msg) == Run(<<>>, Rejected(Thrown(msg, Undefined)))
  IN IF ~Truthy(p.userId) THEN reject(<<"Invalid or missing userId parameter">>)
     ELSE IF ~Truthy(oktaDomain) THEN reject(<<"Invalid or missing oktaDomain parameter">>)
     ELSE IF ~Truthy(ctx.secrets.BEARER_AUTH_TOKEN)
     THEN reject(<<"Missing required secret: BEARER_AUTH_TOKEN">>)
     ELSE IF ~r.ok THEN Run(<<>>, Rejected(r.error))
     ELSE AfterFetch(<<r.request>>, ans)

\* the profile-update requests handed to fetch so far
UpdateRequests == { net[i] : i \in { j \in 1..Len(net) : net[j].kind = "update" } }

\* absent, empty or made of white space only
Blank(v) == v = Undefined \/ \A i \in 1..Len(v) : v[i] = " "

UsableUserId == ~Blank(params.userId)

\* the resolver produced an Authorization header in this invocation
AuthResolved == headers.Authorization # Undefined

Finished == pc = "done"

RejectedWith(msg) == outcome.kind = "rejected" /\ outcome.error.message = msg

\* the member names additionalProfileAttributes contributes to the profile
AdditionalKeys ==
  IF Blank(params.additionalProfileAttributes) THEN {}
  ELSE DOMAIN OwnProperties(JSONParse(params.additionalProfileAttributes))

StandardFieldSet == {"firstName", "lastName", "email", "department", "employeeNumber"}

InvalidUserIdMessage == <<"Invalid or missing userId parameter">>

\* C1: when userId is missing, empty or white space only, invoke rejects with
\* "Invalid or missing userId parameter" and hands no request to fetch.
C1_BlankUserIdRejected ==
  Blank(params.userId) =>
    /\ net = <<>>
    /\ Finished => RejectedWith(InvalidUserIdMessage)

\* C2: with a usable userId and every profile parameter and
\* additionalProfileAttributes absent, empty or white space only, no
\* profile-update request is ever sent and invoke rejects, with "At least one
\* profile field must be provided to update" once the base URL and the
\* Authorization header are resolved; and no profile-update request carries a
\* profile without keys, whatever additionalProfileAttributes parses to.
C2_BlankProfileRejected ==
  /\ (/\ UsableUserId
      /\ \A f \in FieldNames : Blank(params[f])
      /\ Blank(params.additionalProfileAttributes))
       => /\ UpdateRequests = {}
          /\ Finished => outcome.kind = "rejected"
          /\ (Finished /\ AuthResolved) => RejectedWith(NoProfileMessage)
  /\ \A r \in UpdateRequests : DOMAIN r.body.profile # {}

C2_Witness ==
  /\ Finished
  /\ UsableUserId
  /\ \A f \in FieldNames : Blank(params[f])
  /\ params.firstName = <<" ">>
  /\ params.additionalProfileAttributes = <<" ">>
  /\ RejectedWith(NoProfileMessage)

\* the messages of the input-validation errors invoke can raise
IsValidationError(err) ==
  \/ err.message \in {InvalidUserIdMessage, NoProfileMessage, NoUrlMessage, NoAuthMessage}
  \/ StartsWith(err.message, InvalidJsonPrefix)

\* C3: when invoke rejects with an input-validation error, no request (token
\* exchange or profile update) was handed to fetch before it.
C3_ValidationBeforeNetwork ==
  (outcome.kind = "rejected" /\ IsValidationError(outcome.error)) => net = <<>>

\* C4: the Authorization header comes from the first strategy that matches, in
\* the order bearer token, Basic, authorization-code access token, client
\* credentials; the token exchange is made only when the first three do not
\* match; and when none matches invoke rejects with "No authentication
\* configured ..." without any request.
C4_AuthPriority ==
  LET s == context.secrets
      bearer == Truthy(s.BEARER_AUTH_TOKEN)
      basic == Truthy(s.BASIC_USERNAME) /\ Truthy(s.BASIC_PASSWORD)
      code == Truthy(s.OAUTH2_AUTHORIZATION_CODE_ACCESS_TOKEN)
      client == Truthy(s.OAUTH2_CLIENT_CREDENTIALS_CLIENT_SECRET)
      tokenSent == \E i \in 1..Len(net) : net[i].kind = "token"
  IN /\ pc = "ssws" =>
          IF bearer THEN headers.Authorization = AsBearer(s.BEARER_AUTH_TOKEN)
          ELSE IF basic
          THEN headers.Authorization = BasicHeader(s.BASIC_USERNAME, s.BASIC_PASSWORD)
          ELSE IF code
          THEN headers.Authorization = AsBearer(s.OAUTH2_AUTHORIZATION_CODE_ACCESS_TOKEN)
          ELSE /\ client
               /\ tokenSent
               /\ \E r \in TokenResponses :
                    /\ r.ok /\ Truthy(r.access_token)
                    /\ headers.Authorization = BearerPrefix \o r.access_token
     /\ tokenSent => (~bearer /\ ~basic /\ ~code /\ client)
     /\ (~bearer /\ ~basic /\ ~code /\ ~client) =>
          /\ net = <<>>
          /\ ~AuthResolved
          /\ (Finished /\ baseUrl # Undefined) =>
               /\ outcome.kind = "rejected"
               /\ StartsWith(outcome.error.message,
                             <<"No authentication configured. Provide one of: ">>)

C4_Witness ==
  /\ pc = "ssws"
  /\ ~Truthy(context.secrets.BEARER_AUTH_TOKEN)
  /\ Truthy(context.secrets.BASIC_USERNAME) /\ Truthy(context.secrets.BASIC_PASSWORD)
  /\ Truthy(context.secrets.OAUTH2_AUTHORIZATION_CODE_ACCESS_TOKEN)
  /\ Truthy(context.secrets.OAUTH2_CLIENT_CREDENTIALS_CLIENT_SECRET)
  /\ StartsWith(headers.Authorization, BasicPrefix)

C6_BaseUrlResolution ==
  LET given == params.address
      address == IF given # Undefined /\ Len(given) > 0 THEN given
                 ELSE context.environment.ADDRESS
      configured == address # Undefined /\ Len(address) > 0
  IN /\ (configured /\ pc \notin {"invoke", "getBaseURL"}) =>
          baseUrl = IF address[Len(address)] = "/"
                    THEN SubSeq(address, 1, Len(address) - 1)
                    ELSE address
     /\ ~configured =>
          /\ net = <<>>
          /\ Finished => RejectedWith(NoUrlMessage)

C6_Witness ==
  /\ params.address = <<"h", "/", "/">>
  /\ context.environment.ADDRESS = <<"e">>
  /\ baseUrl = <<"h", "/">>
  /\ UpdateRequests # {}

\* C7: every profile-update request is a POST to the resolved base URL
\* followed by "/api/v1/users/" and the userId exactly as given.
C7_LiteralUserIdInUrl ==
  \A r \in UpdateRequests :
    params.userId # Undefined =>
      /\ r.method = "POST"
      /\ r.url = baseUrl \o <<"/api/v1/users/">> \o params.userId

C7_Witness ==
  \E r \in UpdateRequests :
    /\ params.userId = <<"u", "@", "/">>
    /\ r.url = <<"h", "/", "/api/v1/users/", "u", "@", "/">>

\* C8: in the body of every profile-update request, a standard field that no
\* additional attribute names is present exactly when its parameter is a
\* string that is not empty after trimming, with the trimmed parameter as its
\* value; the body is the JSON document {"profile": mapping}.
C8_SparseTrimmedProfile ==
  \A r \in UpdateRequests :
    /\ r.body.type = "json"
    /\ \A f \in StandardFieldSet \ AdditionalKeys :
         /\ f \in DOMAIN r.body.profile <=> ~Blank(params[f])
         /\ ~Blank(params[f]) => r.body.profile[f] = JStr(Trim(params[f]))
    /\ DOMAIN r.body.profile \subseteq StandardFieldSet \cup AdditionalKeys

C8_Witness ==
  \E r \in UpdateRequests :
    /\ params.department = <<" ", "a">>
    /\ AdditionalKeys = {"title"}
    /\ r.body.profile["department"] = JStr(<<"a">>)
    /\ "lastName" \notin DOMAIN r.body.profile

\* C9: a non-empty login as the only profile parameter is accepted: once the
\* base URL and the Authorization header are resolved, the profile-update
\* request is sent with the trimmed login in its profile.
C9_LoginOnlyAccepted ==
  (/\ ~Blank(params.login)
   /\ \A f \in StandardFieldSet : Blank(params[f])
   /\ Blank(params.additionalProfileAttributes)
   /\ AuthResolved
   /\ pc \in {"awaitFetch", "handleResponse", "done"})
    => \E r \in UpdateRequests :
         /\ "login" \in DOMAIN r.body.profile
         /\ r.body.profile["login"] = JStr(Trim(params.login))

\* C10: when additionalProfileAttributes is not blank and parses as a JSON
\* object, the profile sent holds every member of that object with the
\* object's value, also where a standard field has the same name, and the
\* standard fields the object does not name are as without it.
C10_AdditionalAttributesOverride ==
  \A r \in UpdateRequests :
    LET parsed == JSONParse(params.additionalProfileAttributes)
    IN (~Blank(params.additionalProfileAttributes) /\ parsed.ok /\ parsed.type = "object")
         => /\ \A k \in DOMAIN parsed.obj : /\ k \in DOMAIN r.body.profile
                                            /\ r.body.profile[k] = parsed.obj[k]
            /\ \A f \in StandardFieldSet \ DOMAIN parsed.obj :
                 /\ f \in DOMAIN r.body.profile <=> ~Blank(params[f])
                 /\ ~Blank(params[f]) => r.body.profile[f] = JStr(Trim(params[f]))

C10_Witness ==
  \E r \in UpdateRequests :
    /\ params.firstName = <<"a", " ">>
    /\ params.additionalProfileAttributes
         = <<"{", "'firstName'", ":", "'w'", ",", "'title'", ":", "1", "}">>
    /\ r.body.profile["firstName"] = JStr(<<"w">>)
    /\ r.body.profile["title"] = JNum(<<"1">>)

\* texts that are not JSON: a bare word, an object with a trailing comma, an
\* object that is not closed
NotJson ==
  { <<"invalid-json">>,
    <<"{", "'title'", ":", "'w'", ",", "}">>,
    <<"{", "'title'", ":", "'w'">> }

\* C11: when additionalProfileAttributes is not JSON, no profile update is
\* ever sent, whatever standard fields come with it, and an invocation that
\* got as far as building the request is rejected with "Invalid
\* additionalProfileAttributes JSON: " followed by the parser's message.
C11_InvalidJsonRejected ==
  params.additionalProfileAttributes \in NotJson
    => /\ UpdateRequests = {}
       /\ ~(pc \in {"awaitFetch", "handleResponse"})
       /\ (Finished /\ AuthResolved)
            => /\ RejectedWith(InvalidJsonPrefix \o SyntaxErrorMessage)
               /\ StartsWith(outcome.error.message, InvalidJsonPrefix)

C11_Witness ==
  /\ params.additionalProfileAttributes = <<"invalid-json">>
  /\ ~Blank(params.firstName)
  /\ Finished
  /\ AuthResolved
  /\ RejectedWith(InvalidJsonPrefix \o SyntaxErrorMessage)

\* C12: when the users endpoint answers 2xx with a JSON body, invoke resolves
\* with an object that has exactly the keys id, status, created, activated,
\* statusChanged, lastLogin, lastUpdated and profile, each holding what the
\* body holds under that name (undefined where the body has none), and
\* nothing else of the body.
C12_ResultCopiedVerbatim ==
  (Finished /\ response.ok /\ response.json)
    => /\ outcome.kind = "resolved"
       /\ DOMAIN outcome.value
            = {"id", "status", "created", "activated", "statusChanged",
               "lastLogin", "lastUpdated", "profile"}
       /\ \A k \in DOMAIN outcome.value : outcome.value[k] = response.body[k]

C12_Witness ==
  /\ Finished
  /\ response.ok
  /\ response.json
  /\ outcome.kind = "resolved"
  /\ outcome.value["id"] = <<"id">>
  /\ outcome.value["created"] = Undefined
  /\ response.body["created"] = Undefined

\* the users endpoint answered, and not with 2xx
FailedResponse == Finished /\ response # NoResponse /\ ~response.ok

\* C13: when the users endpoint answers non-2xx with a JSON body that holds
\* an errorSummary, invoke rejects with the message "Failed to update user: "
\* followed by that errorSummary, and the error's statusCode is the status of
\* the response.
C13_ErrorSummaryReported ==
  (FailedResponse /\ response.json
     /\ response.body["errorSummary"] \notin {Undefined, <<>>})
    => /\ outcome.kind = "rejected"
       /\ outcome.error.message
            = <<"Failed to update user: ">> \o response.body["errorSummary"]
       /\ outcome.error.statusCode = response.status

C13_Witness ==
  /\ FailedResponse
  /\ response.status = <<"404">>
  /\ response.body["errorSummary"] = <<"Not found">>
  /\ outcome.kind = "rejected"
  /\ outcome.error.message = <<"Failed to update user: ", "Not found">>
  /\ outcome.error.statusCode = <<"404">>

\* C14: when the users endpoint answers non-2xx and the body is not JSON, or
\* is JSON without an errorSummary or with an empty one, invoke rejects with
\* the message "Failed to update user: HTTP " followed by the status, and the
\* error's statusCode is the status of the response; the parser's error never
\* reaches the caller.
C14_HttpStatusFallback ==
  (FailedResponse
     /\ (~response.json \/ response.body["errorSummary"] \in {Undefined, <<>>}))
    => /\ outcome.kind = "rejected"
       /\ outcome.error.message
            = <<"Failed to update user: ", "HTTP ">> \o response.status
       /\ outcome.error.statusCode = response.status
       /\ outcome.error # BodySyntaxError

C14_Witness ==
  /\ FailedResponse
  /\ ~response.json
  /\ response.status = <<"500">>
  /\ outcome.kind = "rejected"
  /\ outcome.error.message = <<"Failed to update user: ", "HTTP ", "500">>
  /\ outcome.error.statusCode = <<"500">>

\* the error the job runner handed to the error handler as params.error
HandledError == outcome.error

\* C15: the error handler settles by rejecting, and with the very error it
\* was given in params.error, message and statusCode included; it resolves
\* with nothing, changes nothing of the invocation and sends no request.
C15_ErrorRethrown ==
  /\ errorResult.kind # "resolved"
  /\ errorResult.kind = "rejected"
       => /\ outcome.kind = "rejected"
          /\ errorResult.error = HandledError
          /\ errorResult.error.message = HandledError.message
          /\ errorResult.error.statusCode = HandledError.statusCode

\* the error handler runs as one step that leaves the network history, the
\* position of invoke and its outcome as they were
C15_ErrorHandlerStep ==
  [][(errorResult' # errorResult)
       => /\ errorResult'.kind = "rejected"
          /\ net' = net
          /\ pc' = pc
          /\ outcome' = outcome]_vars

C15_Witness ==
  /\ errorResult.kind = "rejected"
  /\ errorResult.error.statusCode = <<"404">>
  /\ errorResult.error.message = <<"Failed to update user: ", "Not found">>

\* C16: halt settles by resolving, never by throwing, and sends no request;
\* its value has exactly the keys userId, reason, haltedAt, cleanupCompleted,
\* where reason is params.reason as given, cleanupCompleted is true, haltedAt
\* is a timestamp, and userId is params.userId, or "unknown" when params.userId
\* is absent or empty.
C16_HaltResult ==
  haltResult # NotHalted
    => /\ haltResult.kind = "resolved"
       /\ DOMAIN haltResult.value = {"userId", "reason", "haltedAt", "cleanupCompleted"}
       /\ haltResult.value.reason = haltResult.params.reason
       /\ haltResult.value.cleanupCompleted = TRUE
       /\ \E t \in Clock : haltResult.value.haltedAt = ToISOString(t)
       /\ haltResult.value.haltedAt # Undefined
       /\ haltResult.value.userId
            = IF haltResult.params.userId \in {Undefined, <<>>}
              THEN <<"unknown">>
              ELSE haltResult.params.userId

\* halt runs as one step that leaves the network history and the invocation
\* as they were
C16_HaltStep ==
  [][(haltResult' # haltResult)
       => /\ haltResult'.kind = "resolved"
          /\ net' = net
          /\ pc' = pc
          /\ outcome' = outcome]_vars

C16_Witness ==
  /\ haltResult.kind = "resolved"
  /\ haltResult.params.userId = Undefined
  /\ haltResult.params.reason = <<"timeout">>
  /\ haltResult.value.userId = <<"unknown">>
  /\ haltResult.value.reason = <<"timeout">>

\* C17: invoke swallows no error. It has settled exactly when it has ended,
\* as a result or as a rejection and never both; when fetch itself rejects,
\* for the token exchange or for the profile update, invoke rejects with that
\* very error; and invoke resolves only after a 2xx answer to a profile
\* update it sent.
C17_NoErrorSwallowed ==
  /\ Finished <=> outcome.kind \in {"resolved", "rejected"}
  /\ outcome.kind = "resolved" => outcome.error = NoError
  /\ outcome.kind = "rejected"
       => /\ outcome.error # NoError
          /\ \A k \in DOMAIN outcome.value : outcome.value[k] = Undefined
  /\ transportError # NoError
       => /\ Finished
          /\ outcome.kind = "rejected"
          /\ outcome.error = transportError
          /\ outcome.error.message = transportError.message
          /\ outcome.error.statusCode = transportError.statusCode
  /\ outcome.kind = "resolved"
       => /\ response \in UpdateResponses
          /\ response.ok
          /\ UpdateRequests # {}
          /\ transportError = NoError

C17_Witness ==
  /\ Finished
  /\ transportError = Thrown(<<"socket hang up">>, <<"ECONNRESET">>)
  /\ UpdateRequests # {}
  /\ \E i \in 1..Len(net) : net[i].kind = "token"
  /\ outcome.kind = "rejected"
  /\ outcome.error = Thrown(<<"socket hang up">>, <<"ECONNRESET">>)

NoAddress == params.address \in {Undefined, <<>>}
               /\ context.environment.ADDRESS \in {Undefined, <<>>}

NoAuthConfigured ==
  LET s == context.secrets
  IN /\ s.BEARER_AUTH_TOKEN \in {Undefined, <<>>}
     /\ s.BASIC_USERNAME \in {Undefined, <<>>} \/ s.BASIC_PASSWORD \in {Undefined, <<>>}
     /\ s.OAUTH2_AUTHORIZATION_CODE_ACCESS_TOKEN \in {Undefined, <<>>}
     /\ s.OAUTH2_CLIENT_CREDENTIALS_CLIENT_SECRET \in {Undefined, <<>>}

NoProfileGiven ==
  /\ \A f \in StandardFieldSet : Blank(params[f])
  /\ Blank(params.additionalProfileAttributes)

\* the message of the first step that fails on the inputs alone, from the
\* step `from` on, in the order userId (1), base URL (2), auth (3), request
\* (4); empty when none of them fails or when the auth step fails for another
\* reason than a missing configuration
FirstFailure(from) ==
  IF from <= 1 /\ Blank(params.userId) THEN InvalidUserIdMessage
  ELSE IF NoAddress THEN NoUrlMessage
  ELSE IF NoAuthConfigured THEN NoAuthMessage
  ELSE IF ~AuthResolved THEN <<>>
  ELSE IF params.additionalProfileAttributes \in NotJson
  THEN InvalidJsonPrefix \o SyntaxErrorMessage
  ELSE IF NoProfileGiven THEN NoProfileMessage
  ELSE <<>>

\* C18: invoke validates userId, resolves the base URL, resolves the auth,
\* builds the request and sends it, in that order, and rejects with the error
\* of the first step that fails: a missing userId wins over a missing base
\* URL, that over missing auth, that over invalid JSON, that over an empty
\* profile.
C18_EarliestFailureWins ==
  (Finished /\ FirstFailure(1) # <<>>) => RejectedWith(FirstFailure(1))

\* the same order from the base URL on
C18_OrderFromBaseUrl ==
  (Finished /\ FirstFailure(2) # <<>>)
    => /\ RejectedWith(FirstFailure(2))
       /\ (NoAddress \/ NoAuthConfigured) => net = <<>>
       /\ UpdateRequests = {}

C18_OrderWitness ==
  /\ Finished
  /\ NoAddress
  /\ NoAuthConfigured
  /\ NoProfileGiven
  /\ RejectedWith(NoUrlMessage)

TokenRequests == { i \in 1..Len(net) : net[i].kind = "token" }

UpdateRequestIndexes == { i \in 1..Len(net) : net[i].kind = "update" }

\* the client-credentials strategy is the first whose secrets are present
ClientCredentialsSelected ==
  LET s == context.secrets
  IN /\ s.BEARER_AUTH_TOKEN \in {Undefined, <<>>}
     /\ s.BASIC_USERNAME \in {Undefined, <<>>} \/ s.BASIC_PASSWORD \in {Undefined, <<>>}
     /\ s.OAUTH2_AUTHORIZATION_CODE_ACCESS_TOKEN \in {Undefined, <<>>}
     /\ s.OAUTH2_CLIENT_CREDENTIALS_CLIENT_SECRET \notin {Undefined, <<>>}

\* the token exchange was answered with 2xx and an access_token
TokenExchangeSucceeded ==
  /\ tokenResponse \in TokenResponses
  /\ tokenResponse.ok
  /\ tokenResponse.json
  /\ tokenResponse.access_token \notin {Undefined, <<>>}

\* C19: an invocation makes at most two requests, one after the other: a
\* token exchange only under the client-credentials strategy, and at most one
\* profile update, which starts only after the token exchange has been
\* answered and never after a token exchange that failed or brought no
\* access_token.
C19_RequestsSequential ==
  /\ Len(net) <= 2
  /\ Cardinality(TokenRequests) <= 1
  /\ Cardinality(UpdateRequestIndexes) <= 1
  /\ \A i \in 1..Len(net) : net[i].kind \in {"token", "update"}
  /\ TokenRequests # {} => ClientCredentialsSelected
  /\ \A i \in TokenRequests : \A j \in UpdateRequestIndexes : i < j
  /\ pc = "awaitToken"
       <=> (TokenRequests # {} /\ tokenResponse = NoTokenResponse
              /\ transportError = NoError)
  /\ pc = "awaitToken" => UpdateRequestIndexes = {}
  /\ (TokenRequests # {} /\ UpdateRequestIndexes # {}) => TokenExchangeSucceeded
  /\ pc = "awaitFetch"
       => (UpdateRequestIndexes # {} /\ response = NoResponse /\ transportError = NoError)

C19_Witness ==
  /\ Finished
  /\ Len(net) = 2
  /\ net[1].kind = "token"
  /\ net[2].kind = "update"
  /\ TokenExchangeSucceeded
  /\ outcome.kind = "resolved"

\* a token exchange that failed ends the invocation without a profile update
C19_FailedExchangeWitness ==
  /\ Finished
  /\ TokenRequests # {}
  /\ tokenResponse \in TokenResponses
  /\ ~tokenResponse.ok
  /\ UpdateRequestIndexes = {}
  /\ outcome.kind = "rejected"

\* the values the form body of request q carries under name n
FormValues(q, n) ==
  { q.body.form[i].value : i \in { j \in 1..Len(q.body.form) : q.body.form[j].name = n } }

FormNames(q) == { q.body.form[i].name : i \in 1..Len(q.body.form) }

\* C20: a token request carries the client credentials in one place only.
\* With auth style "InParams" the form body holds client_id and client_secret
\* and there is no Authorization header; with any other auth style, or none,
\* the header is "Basic " + base64(clientId:clientSecret) and the body holds
\* neither. The body always holds grant_type=client_credentials, and scope
\* and audience exactly when they are configured.
C20_CredentialsInOnePlace ==
  \A i \in 1..Len(net) :
    net[i].kind = "token" =>
      LET q == net[i]
          env == context.environment
          clientId == env.OAUTH2_CLIENT_CREDENTIALS_CLIENT_ID
          clientSecret == context.secrets.OAUTH2_CLIENT_CREDENTIALS_CLIENT_SECRET
          scope == env.OAUTH2_CLIENT_CREDENTIALS_SCOPE
          audience == env.OAUTH2_CLIENT_CREDENTIALS_AUDIENCE
      IN /\ q.body.type = "form"
         /\ q.method = "POST"
         /\ q.url = env.OAUTH2_CLIENT_CREDENTIALS_TOKEN_URL
         /\ FormValues(q, "grant_type") = {<<"client_credentials">>}
         /\ IF env.OAUTH2_CLIENT_CREDENTIALS_AUTH_STYLE = <<"InParams">>
            THEN /\ FormValues(q, "client_id") = {clientId}
                 /\ FormValues(q, "client_secret") = {clientSecret}
                 /\ q.authorization = Undefined
            ELSE /\ q.authorization
                      = <<"Basic ">> \o Base64(clientId \o <<":">> \o clientSecret)
                 /\ "client_id" \notin FormNames(q)
                 /\ "client_secret" \notin FormNames(q)
         /\ FormValues(q, "scope") = IF scope \in {Undefined, <<>>} THEN {} ELSE {scope}
         /\ FormValues(q, "audience")
              = IF audience \in {Undefined, <<>>} THEN {} ELSE {audience}
         /\ FormNames(q) \subseteq
              {"grant_type", "scope", "audience", "client_id", "client_secret"}
         /\ Len(q.body.form) = Cardinality(FormNames(q))

C20_Witness ==
  /\ Len(net) >= 1
  /\ net[1].kind = "token"
  /\ context.environment.OAUTH2_CLIENT_CREDENTIALS_AUTH_STYLE = <<"InParams">>
  /\ context.environment.OAUTH2_CLIENT_CREDENTIALS_SCOPE = <<"o">>
  /\ context.environment.OAUTH2_CLIENT_CREDENTIALS_AUDIENCE = Undefined
  /\ net[1].authorization = Undefined
  /\ FormNames(net[1]) = {"grant_type", "scope", "client_id", "client_secret"}

\* the same for an auth style that is not "InParams"
C20_HeaderWitness ==
  /\ Len(net) >= 1
  /\ net[1].kind = "token"
  /\ context.environment.OAUTH2_CLIENT_CREDENTIALS_AUTH_STYLE = <<"InHeader">>
  /\ net[1].authorization = <<"Basic ", "b64[", "i", ":", "s", "]">>
  /\ FormNames(net[1]) = {"grant_type"}

\* what the HTTP layer did in this invocation, for the other variants to be
\* run against
HttpAnswers ==
  LET atToken == transportError # NoError /\ UpdateRequests = {}
      atFetch == transportError # NoError /\ UpdateRequests # {}
  IN Answers(IF atToken THEN transportError ELSE NoError, tokenResponse,
             IF atFetch THEN transportError ELSE NoError, response)

\* the variant run v ends as this invocation ended: settled the same way, with
\* the same error message or the same result, after the same profile-update
\* request
SameEnd(v) ==
  /\ v.outcome.kind = outcome.kind
  /\ v.outcome.error.message = outcome.error.message
  /\ v.outcome.value = outcome.value
  /\ { v.net[i] : i \in { j \in 1..Len(v.net) : v.net[j].kind = "update" } }
       = UpdateRequests

\* C21: the variants of invoke are functionally equivalent: on the same
\* params and context, and with the same answers of the HTTP layer, the
\* bundled variant ends as script.mjs does, with the same error message, or
\* the same profile-update request and the same result.
C21_VariantsEquivalent ==
  Finished => SameEnd(bundledInvoke(params, context, HttpAnswers))

\* the same for the dist variant
C21_DistEquivalent ==
  Finished => SameEnd(distInvoke(params, context, HttpAnswers))

\* where script.mjs and the bundled variant do agree: a userId that is not
\* empty, and a strategy other than the two OAuth2 ones
C21_AgreeOutsideOAuth2 ==
  (/\ Finished
   /\ params.userId \notin {Undefined, <<>>}
   /\ \/ context.secrets.BEARER_AUTH_TOKEN \notin {Undefined, <<>>}
      \/ /\ context.secrets.OAUTH2_AUTHORIZATION_CODE_ACCESS_TOKEN \in {Undefined, <<>>}
         /\ context.secrets.OAUTH2_CLIENT_CREDENTIALS_CLIENT_SECRET \in {Undefined, <<>>})
    => /\ SameEnd(bundledInvoke(params, context, HttpAnswers))
       /\ bundledInvoke(params, context, HttpAnswers).net = net
       /\ bundledInvoke(params, context, HttpAnswers).outcome = outcome

\* where they differ though the userId is valid: an OAuth2 access token,
\* sent as "Bearer ..." by script.mjs and as "SSWS ..." by the bundled variant
C21_OAuth2Difference ==
  /\ Finished
  /\ params.userId = <<"u">>
  /\ outcome.kind = "resolved"
  /\ \E r \in UpdateRequests : StartsWith(r.authorization, BearerPrefix)
  /\ LET b == bundledInvoke(params, context, HttpAnswers)
     IN /\ b.outcome = outcome
        /\ \E i \in 1..Len(b.net) : /\ b.net[i].kind = "update"
                                    /\ StartsWith(b.net[i].authorization, SswsPrefix)

\* where script.mjs and the dist variant do agree
C21_DistAgreement ==
  /\ Finished
  /\ OktaDomainOf(params) = <<"d">>
  /\ outcome.kind = "resolved"
  /\ SameEnd(distInvoke(params, context, HttpAnswers))

\* the operator reading of script.mjs is the invocation: at its end it has
\* sent the same requests and settled the same way
ScriptInvokeIsTheInvocation ==
  Finished => scriptInvoke(params, context, HttpAnswers) = Run(net, outcome)

\* the context with every secret that is set replaced by the same fixed
\* value: two contexts that differ only in the values of their secrets have
\* the same redacted context
Redacted(ctx) ==
  [ctx EXCEPT !.secrets =
     [k \in DOMAIN ctx.secrets |->
        IF Truthy(ctx.secrets[k]) THEN <<"*">> ELSE ctx.secrets[k]]]

\* the characters of the secrets of this invocation
SecretAtoms ==
  UNION { { context.secrets[k][i] : i \in 1..Len(context.secrets[k]) }
          : k \in { n \in DOMAIN context.secrets : Truthy(context.secrets[n]) } }
    \ { "Bearer ", "SSWS ", "Basic " }

IsHaltLine(l) == haltResult # NotHalted /\ l = HaltLine(haltResult.params)

IsNoHaltLine(l) == ~IsHaltLine(l)

\* invoke has ended and, where it rejected, the error handler has run
Settled == Finished /\ (outcome.kind = "rejected" => errorResult # Pending)

\* C22: no line printed by invoke, error or halt holds credential material.
\* The lines of invoke and error are those the same params and the same
\* answers of the HTTP layer give with the redacted context, so that two
\* contexts that differ only in the values of their secrets print the same
\* lines, on the success path and on every error path; the line of halt is
\* made of halt's own params; and no line contains a character of a secret.
\* Lines are only ever appended, so what holds of the lines printed when the
\* handlers have finished holds of the lines printed before.
C22_LogsIndependentOfSecrets ==
  LET printed == SelectSeq(log, IsNoHaltLine)
      lines == scriptLog(params, Redacted(context), HttpAnswers)
  IN /\ Len(SelectSeq(log, IsHaltLine)) = IF haltResult = NotHalted THEN 0 ELSE 1
     /\ Settled
          => /\ printed = lines
             /\ \A i \in 1..Len(log) :
                  \A j \in 1..Len(log[i].text) : log[i].text[j] \notin SecretAtoms

C22_Witness ==
  /\ Settled
  /\ haltResult # NotHalted
  /\ context.secrets.BASIC_USERNAME = <<"n">>
  /\ context.secrets.BASIC_PASSWORD = <<"p">>
  /\ context.secrets.BEARER_AUTH_TOKEN = Undefined
  /\ outcome.kind = "rejected"
  /\ response.status = <<"404">>
  /\ Len(log) = 4

\* the same on the success path, under the client-credentials strategy
C22_SuccessWitness ==
  /\ Settled
  /\ context.secrets.OAUTH2_CLIENT_CREDENTIALS_CLIENT_SECRET = <<"s">>
  /\ tokenResponse.access_token = <<"x">>
  /\ outcome.kind = "resolved"
  /\ Len(log) = 2

\* v is a string that is empty or made of white space only
BlankString(v) == v.type = "string" /\ Blank(v.str)

\* C23: in every profile update that is sent, no field of the profile holds
\* an empty or white-space-only string, and every standard field in it is
\* trimmed, whatever standard parameters and additional attributes came in,
\* colliding ones included.
C23_NoBlankField ==
  \A r \in UpdateRequests :
    \A k \in DOMAIN r.body.profile :
      /\ ~BlankString(r.body.profile[k])
      /\ (k \in StandardFieldSet /\ r.body.profile[k].type = "string")
           => Trim(r.body.profile[k].str) = r.body.profile[k].str

\* C23 as the code has it: the fields that come from the standard parameters
\* are strings, never blank and always trimmed; the members of
\* additionalProfileAttributes are sent as parsed, a blank string included,
\* also under the name of a standard field; and the profile is never empty.
C23_ParameterFieldsNeverBlank ==
  \A r \in UpdateRequests :
    /\ DOMAIN r.body.profile # {}
    /\ \A k \in DOMAIN r.body.profile \ AdditionalKeys :
         /\ k \in StandardFieldSet
         /\ r.body.profile[k].type = "string"
         /\ ~Blank(r.body.profile[k].str)
         /\ Trim(r.body.profile[k].str) = r.body.profile[k].str
         /\ r.body.profile[k].str = Trim(params[k])
    /\ \A k \in DOMAIN r.body.profile \cap AdditionalKeys :
         r.body.profile[k]
           = OwnProperties(JSONParse(params.additionalProfileAttributes))[k]

C23_Witness ==
  \E r \in UpdateRequests :
    /\ params.additionalProfileAttributes = <<"{", "'lastName'", ":", "' '", "}">>
    /\ params.firstName = <<" ", "a">>
    /\ r.body.profile["firstName"] = JStr(<<"a">>)
    /\ r.body.profile["lastName"] = JStr(<<" ">>)

====
